---- MODULE Spec2Model ----
(***************************************************************************)
(* PIM HAL back-end: device buffers, device allocator, command buffer and  *)
(* the PIM SDK shim, as a state machine.  Buffers are identified by their  *)
(* index in `buffers`; SDK handles are the integers the SDK returns.       *)
(* Tensor storage is modelled at byte granularity (one float32 = 4 bytes). *)
(***************************************************************************)
EXTENDS Integers, Sequences, FiniteSets, TLC

VARIABLES
  buffers,   \* sequence of device buffers (iree_hal_vulkan_vma_buffer_t)
  cbs,       \* command buffers (iree_hal_vulkan_direct_command_buffer_t)
  sdk,       \* the PIM SDK: its handle table and the op codes it has run
  last,      \* the last HAL call: its name, arguments, SDK calls, results
  trail,     \* the binding and submitting calls that led up to `last`
  bound,     \* per command buffer: the binding list of its latest push
  given,     \* per buffer: the initial data its allocation was given
  issued,    \* op codes of the non-empty dispatch calls, in call order
  crashed,   \* the process dereferenced a NULL pointer
  drivers,   \* drivers created by the factory (iree_hal_vulkan_driver_t)
  devices,   \* devices created by drivers (iree_hal_vulkan_device_t)
  executables, \* executables (iree_hal_vulkan_native_executable_t)
  semaphores,  \* semaphores (iree_hal_vulkan_native_semaphore_t)
  signalled,   \* per semaphore: the payload value a caller last gave it
  command_buffers, \* command buffers created by create_command_buffer
  destroyed, \* buffers whose struct has been freed
  heap,      \* host shadows handed out by map_range and still held
  pushed     \* per command buffer: the handles and shapes its bindings had
             \* when push_descriptor_set was last called

vars == <<buffers, cbs, sdk, last, trail, bound, given, issued, crashed,
          drivers, devices, executables,
          semaphores, signalled, command_buffers, destroyed, heap, pushed>>

\* The objects created through a device besides buffers and executables,
\* and the buffers freed.
auxVars == <<semaphores, signalled, command_buffers, destroyed, heap>>

\* The objects of the host side: drivers, devices, executables, semaphores,
\* created command buffers.
hostVars == <<drivers, devices, executables, auxVars>>

\* The objects of the recording side.
recordVars == <<buffers, cbs, sdk, bound, pushed, given, issued>>

----------------------------------------------------------------------------
(* Bounds of the model. *)

MaxBuffers == 2      \* buffers created in one run
MaxHandles == 3      \* handles the SDK hands out in one run
MaxBindings == 2     \* bindings in one push_descriptor_set
MaxDrivers == 1      \* drivers created in one run
MaxDevices == 1      \* devices created in one run
MaxExecutables == 1  \* executables created in one run
MaxSemaphores == 2   \* semaphores created in one run
MaxCommandBuffers == 1 \* command buffers created in one run
MaxMappings == 2     \* mappings held at one time

(* Input domains. *)

CbIds == {"cb1"}
TwoCbIds == {"cb1", "cb2"}      \* two command buffers of one device

Sizes == {0, 6, 8}                       \* requested allocation sizes, bytes
TensorShapes == {<<2, 1, 4>>}             \* params->tensor_shape
TensorRanks == {2, 3}                    \* params->tensor_rank
OutShapes == {<<1, 2>>, <<3>>}           \* shapes the SDK reports for results

\* 64-bit code words as (high 32 bits, low 32 bits); the low half is written
\* as the int with the same 32 bits, negative when bit 31 is set.
Word(h, l) == [hi |-> h, lo |-> l]
Executables == {<<>>, <<Word(0, 1)>>, <<Word(0, 2), Word(0, 9)>>}
\* Code whose first word does not fit an int, or differs only after it.
GridExecutables == {<<Word(0, 2)>>, <<Word(0, 2), Word(0, 9)>>, <<Word(1, 2)>>, <<Word(0, -2)>>}
EntryPoints == {0, 1}                    \* entry_point ordinals
WorkgroupCounts == {<<1, 1, 1>>, <<2, 3, 4>>}   \* workgroup_x, _y, _z

NULL == 0

\* Initial data of n bytes handed to allocate_buffer.
InitialData(n) == {[i \in 1..n |-> i]}

Zeros(n) == [i \in 1..n |-> 0]

Last(s) == s[Len(s)]

RECURSIVE Product(_)
Product(s) == IF s = <<>> THEN 1 ELSE s[1] * Product(Tail(s))

----------------------------------------------------------------------------
(* PIM SDK (pim.h).  The SDK owns the tensors; a handle is the index of    *)
(* its tensor in the handle table.                                         *)

\* int PIM_SDK_alloc_buffer(int size, float* data): stores `size` floats
\* read from `data` under a fresh handle, which it returns.
PIM_SDK_alloc_buffer(s, size, data) ==
  [s EXCEPT !.mem = Append(@, SubSeq(data, 1, 4 * size))]

\* int PIM_dispatch_code(addr_vec, op_type, dim_inf, &output_shape): runs
\* the operator and stores the result tensor under a fresh handle, which
\* it returns.
PIM_dispatch_code(s, addr_vec, op_type, dim_inf, output_shape) ==
  [s EXCEPT !.mem = Append(@, [i \in 1..(4 * Product(output_shape)) |-> 7]),
            !.opLog = Append(@, op_type)]

\* The handle the next SDK call returns.
FreshHandle(s) == Len(s.mem) + 1

\* void get_PIM_SDK_buffer(int addr, float* data): copies the whole tensor
\* of `addr` to `data`; bytes beyond the destination's end are an overrun.
get_PIM_SDK_buffer(s, addr, dest) ==
  [i \in 1..Len(dest) |->
     IF i <= Len(s.mem[addr]) THEN s.mem[addr][i] ELSE dest[i]]


----------------------------------------------------------------------------
(* Device buffer (PIM_buffer.cc). *)

\* iree_hal_PIM_buffer_wrap: the buffer struct with its metadata.
iree_hal_PIM_buffer_wrap(allocation_size, byte_offset, byte_length, PIM_addr, PIM_dim, PIM_rank) ==
  [allocation_size |-> allocation_size, byte_offset |-> byte_offset,
   byte_length |-> byte_length,
   PIM_addr |-> PIM_addr, PIM_dim |-> PIM_dim, PIM_rank |-> PIM_rank]

get_PiM_addr(b) == buffers[b].PIM_addr
get_PiM_dim(b) == buffers[b].PIM_dim

\* A push_PiM_addr that does not store the handle.
push_PiM_addr_lost(bufs, b, new_PIM_addr) == bufs

push_PiM_addr(bufs, b, new_PIM_addr) ==
  [bufs EXCEPT ![b].PIM_addr = new_PIM_addr]

\* A push_PiM_dim that does not store the shape.
push_PiM_dim_lost(bufs, b, new_PIM_dim) == bufs

\* A push_PiM_dim that updates the rank with the shape.
push_PiM_dim_ranked(bufs, b, new_PIM_dim) ==
  [bufs EXCEPT ![b].PIM_dim = new_PIM_dim, ![b].PIM_rank = Len(new_PIM_dim)]

push_PiM_dim(bufs, b, new_PIM_dim) ==
  [bufs EXCEPT ![b].PIM_dim = new_PIM_dim]

----------------------------------------------------------------------------
(* History bookkeeping. *)

\* `trail` follows runs of calls that bind or submit: push_descriptor_set
\* and dispatch with a non-empty executable.  While `last` is such a call,
\* `trail` holds the at most two calls of the run right before it; any other
\* call ends the run and empties `trail`.
Recorded(l) ==
  \/ l.op = "push_descriptor_set"
  \/ l.op = "dispatch" /\ l.code_length > 0

\* What `trail` keeps of a call.
Abbrev(l) ==
  IF l.op = "push_descriptor_set"
    THEN [op |-> l.op, cb |-> l.cb,
          out |-> IF l.bindings = <<>> THEN NULL ELSE Last(l.bindings)]
    ELSE [op |-> l.op, cb |-> l.cb]

Shift == IF ~Recorded(last) THEN <<>>
         ELSE IF Len(trail) < 2 THEN Append(trail, Abbrev(last))
         ELSE <<trail[2], Abbrev(last)>>

----------------------------------------------------------------------------
\* The state after construction, with the command buffers `ids`, the
\* buffers `bufs` allocated from initial data `data`, and the SDK `s`.
InitWith(ids, bufs, s, data) ==
  /\ buffers = bufs
  /\ cbs = [c \in ids |->
              [buffer_addr_vec |-> <<>>, buffer_shape_vec |-> <<>>,
               input_PIM_buffer |-> NULL, result_PIM_buffer |-> NULL]]
  /\ sdk = s
  /\ last = [op |-> "none"]
  /\ trail = <<>>
  /\ bound = [c \in ids |-> <<>>]
  /\ pushed = [c \in ids |-> [handles |-> <<>>, shapes |-> <<>>]]
  /\ given = data
  /\ issued = <<>>
  /\ crashed = FALSE
  /\ drivers = <<>>
  /\ devices = <<>>
  /\ executables = <<>>
  /\ semaphores = <<>>
  /\ signalled = <<>>
  /\ command_buffers = <<>>
  /\ destroyed = {}
  /\ heap = <<>>

Init == InitWith(CbIds, <<>>, [mem |-> <<>>, opLog |-> <<>>], <<>>)

----------------------------------------------------------------------------
(* Device allocator (PIM_allocator.cc). *)

\* iree_hal_PIM_allocator_allocate_internal: wraps the handle; when the host
\* allocation of the buffer struct fails no buffer exists and the result
\* pointer is NULL, the status is OK either way.
iree_hal_PIM_allocator_allocate_internal(bufs, allocation_size, PiM_addr, PiM_dim, PiM_rank, oom) ==
  IF oom THEN bufs
  ELSE Append(bufs, iree_hal_PIM_buffer_wrap(allocation_size, 0,
                                             allocation_size,
                                             PiM_addr, PiM_dim, PiM_rank))

\* A copy loop that stops one dimension early.
TensorDim_short(tensor_shape, tensor_rank) ==
  [i \in 1..(tensor_rank - 1) |-> tensor_shape[i]]

\* The loop copying params->tensor_shape[0 .. tensor_rank) to PiM_dim.
TensorDim(tensor_shape, tensor_rank) ==
  [i \in 1..tensor_rank |-> tensor_shape[i]]

\* A placeholder shape sized by the rank of the request.
PlaceholderDim_ranked(tensor_rank) == [i \in 1..tensor_rank |-> 0]

\* PiM_dim of a buffer allocated without initial data.
PlaceholderDim(tensor_rank) == <<0, 0, 0>>

\* iree_hal_PIM_allocator_allocate_buffer(params, allocation_size,
\* initial_data, out_buffer); initial_data = <<>> is the empty span.
AllocateBuffer(name, allocation_size, initial_data, tensor_shape, tensor_rank, oom) ==
  LET size == allocation_size \div 4
      data == IF initial_data # <<>> THEN initial_data ELSE Zeros(4 * size)
      PiM_addr == FreshHandle(sdk)
      PiM_dim == IF initial_data # <<>>
                   THEN TensorDim(tensor_shape, tensor_rank)
                   ELSE PlaceholderDim(tensor_rank)
      bufs == iree_hal_PIM_allocator_allocate_internal(
                buffers, allocation_size, PiM_addr, PiM_dim, tensor_rank, oom)
  IN /\ ~crashed
     /\ Len(buffers) < MaxBuffers
     /\ Len(sdk.mem) < MaxHandles
     /\ sdk' = PIM_SDK_alloc_buffer(sdk, size, data)
     /\ buffers' = bufs
     /\ last' = [op |-> name, allocation_size |-> allocation_size,
                 initial_data |-> initial_data,
                 tensor_shape |-> tensor_shape, tensor_rank |-> tensor_rank,
                 sdk_alloc |-> [size |-> size, data |-> data,
                                ret |-> PiM_addr],
                 status |-> "OK", host_oom |-> oom,
                 out_buffer |-> IF oom THEN NULL ELSE Len(bufs)]
     /\ given' = IF oom THEN given ELSE Append(given, initial_data)
     /\ trail' = <<>>
     /\ UNCHANGED <<cbs, bound, pushed, issued, crashed>>
     /\ UNCHANGED hostVars

\* allocator vtable allocate_buffer
allocate_buffer ==
  \E allocation_size \in Sizes, tensor_shape \in TensorShapes,
     tensor_rank \in TensorRanks, hasData \in BOOLEAN, oom \in BOOLEAN :
    \E initial_data \in IF hasData THEN InitialData(allocation_size)
                        ELSE {<<>>} :
      AllocateBuffer("allocate_buffer", allocation_size, initial_data,
                     tensor_shape, tensor_rank, oom)

\* iree_hal_vulkan_device_queue_alloca: allocate_buffer with the empty span.
queue_alloca ==
  \E allocation_size \in Sizes, tensor_shape \in TensorShapes,
     tensor_rank \in TensorRanks, oom \in BOOLEAN :
      AllocateBuffer("queue_alloca", allocation_size, <<>>,
                     tensor_shape, tensor_rank, oom)

\* The allocations of a recording: an operand with its data, and an output
\* placeholder.
allocate_operand ==
  \E initial_data \in InitialData(8), tensor_shape \in TensorShapes :
    AllocateBuffer("allocate_buffer", 8, initial_data, tensor_shape, 2, FALSE)

alloca_output ==
  \E tensor_shape \in TensorShapes :
    AllocateBuffer("queue_alloca", 8, <<>>, tensor_shape, 3, FALSE)

----------------------------------------------------------------------------
(* Device buffer mapping (PIM_buffer.cc). *)

\* A map_range that reads the SDK whether or not it has a shadow.
MapRange_unchecked(b, local_byte_length, oom) ==
  [status |-> "OK", sdk_read |-> buffers[b].PIM_addr, overrun |-> FALSE,
   contents |-> get_PIM_SDK_buffer(sdk, buffers[b].PIM_addr,
                                   Zeros(local_byte_length))]

\* What iree_hal_vulkan_vma_buffer_map_range returns and does: the status,
\* the handle it read from the SDK (NULL: no read), whether the read ran
\* past the shadow, and mapping->contents (<<>>: not written).
MapRange(b, local_byte_length, oom) ==
  LET pim_output_tmp == Zeros(local_byte_length)
      tensor == sdk.mem[buffers[b].PIM_addr]
  IN IF oom
       THEN [status |-> "RESOURCE_EXHAUSTED",
             sdk_read |-> NULL, overrun |-> FALSE,
             contents |-> <<>>]
       ELSE [status |-> "OK",
             sdk_read |-> buffers[b].PIM_addr,
             overrun |-> Len(tensor) > local_byte_length,
             contents |-> get_PIM_SDK_buffer(sdk, buffers[b].PIM_addr,
                                             pim_output_tmp)]

\* iree_hal_vulkan_vma_buffer_map_range: a fresh zeroed host shadow of
\* local_byte_length bytes, filled by the SDK read of the buffer's handle.
\* local_byte_offset is not used.  host_oom: the host allocation of the
\* shadow failed.
map_range ==
  \E b \in 1..Len(buffers), local_byte_offset \in {0, 4},
     local_byte_length \in {2, 4, 6, 8}, oom \in BOOLEAN :
    LET call == [op |-> "map_range", buffer |-> b,
                 local_byte_offset |-> local_byte_offset,
                 local_byte_length |-> local_byte_length,
                 host_oom |-> oom]
    IN /\ ~crashed
       /\ local_byte_offset + local_byte_length <= buffers[b].byte_length
       /\ last' = call @@ MapRange(b, local_byte_length, oom)
       /\ trail' = <<>>
       /\ UNCHANGED <<buffers, cbs, sdk, bound, pushed, given, issued, crashed>>
       /\ UNCHANGED hostVars

\* The bytes of the tensor that do not fit a shadow of n bytes.
Overflow(tensor, n) == SubSeq(tensor, n + 1, Len(tensor))

\* A block of the host heap after `bytes` were written over its start.
Overwritten(block, bytes) ==
  [i \in 1..Len(block) |-> IF i <= Len(bytes) THEN bytes[i] ELSE block[i]]

\* iree_allocator_malloc in map_range: the shadow is a new block of the
\* host heap; no call frees it.
Shadow(h, b, contents) == Append(h, contents)

\* iree_hal_vulkan_vma_buffer_map_range with the shadows its callers hold.
\* When the SDK copies more bytes than the shadow has, the bytes beyond its
\* end land in unused memory, or in a shadow handed out earlier, or end the
\* process.
map_range_held ==
  \E b \in 1..Len(buffers), local_byte_offset \in {0, 4},
     local_byte_length \in {4, 8}, oom \in BOOLEAN :
    LET call == [op |-> "map_range", buffer |-> b,
                 local_byte_offset |-> local_byte_offset,
                 local_byte_length |-> local_byte_length,
                 host_oom |-> oom]
        r == MapRange(b, local_byte_length, oom)
        spill == Overflow(sdk.mem[buffers[b].PIM_addr], local_byte_length)
    IN /\ ~crashed
       /\ Len(heap) < MaxMappings
       /\ local_byte_offset + local_byte_length <= buffers[b].byte_length
       /\ \/ /\ r.status # "OK"
             /\ last' = call @@ r
             /\ UNCHANGED <<heap, crashed>>
          \/ /\ r.status = "OK"
             /\ last' = call @@ r
             /\ heap' = Shadow(heap, b, r.contents)
             /\ UNCHANGED crashed
          \/ /\ r.status = "OK" /\ r.overrun
             /\ \E m \in 1..Len(heap) :
                  heap' = Shadow([heap EXCEPT ![m] = Overwritten(@, spill)],
                                 b, r.contents)
             /\ last' = call @@ r
             /\ UNCHANGED crashed
          \/ /\ r.status = "OK" /\ r.overrun
             /\ last' = call @@ [status |-> "SIGSEGV", sdk_read |-> r.sdk_read,
                                  overrun |-> TRUE, contents |-> <<>>]
             /\ crashed' = TRUE
             /\ UNCHANGED heap
       /\ trail' = <<>>
       /\ UNCHANGED <<buffers, cbs, sdk, bound, pushed, given, issued>>
       /\ UNCHANGED <<drivers, devices, executables, semaphores, signalled,
                      command_buffers, destroyed>>

\* iree_hal_vulkan_vma_buffer_unmap_range, _invalidate_range, _flush_range:
\* cast the buffer and return success; the shadow is not freed.
RangeCall(name) ==
  \E b \in 1..Len(buffers), local_byte_offset \in {0},
     local_byte_length \in {4, 8} :
    /\ ~crashed
    /\ last' = [op |-> name, buffer |-> b,
                local_byte_offset |-> local_byte_offset,
                local_byte_length |-> local_byte_length, status |-> "OK"]
    /\ trail' = <<>>
    /\ UNCHANGED <<buffers, cbs, sdk, bound, pushed, given, issued, crashed>>
    /\ UNCHANGED hostVars

unmap_range == RangeCall("unmap_range")
invalidate_range == RangeCall("invalidate_range")
flush_range == RangeCall("flush_range")

----------------------------------------------------------------------------
(* Command buffer (direct_command_buffer.cc). *)

\* The operator code PIM_dispatch_code receives: the uint64_t code word
\* converted to the int parameter op_type keeps the low 32 bits.
OpType(word) == word.lo

\* The buffers a caller holds a reference to.
Live == (1..Len(buffers)) \ destroyed

BindingLists ==
  UNION {[1..n -> Live] : n \in 1..MaxBindings}

\* A push_descriptor_set that appends to what was captured before.
Clear_kept(vec) == vec

\* std::vector clear() and shrink_to_fit() of a captured vector.
Clear(vec) == <<>>

\* A push_descriptor_set that captures the inputs and leaves the output
\* binding out of the vectors.
PushDescriptorSet_inputs(cb, bindings) ==
  LET binding_count == Len(bindings)
  IN [input_PIM_buffer |-> bindings[1],
      result_PIM_buffer |-> bindings[binding_count],
      buffer_addr_vec |-> [i \in 1..(binding_count - 1) |->
                             get_PiM_addr(bindings[i])],
      buffer_shape_vec |-> [i \in 1..(binding_count - 1) |->
                              get_PiM_dim(bindings[i])]]

\* iree_hal_vulkan_direct_command_buffer_push_descriptor_set: the command
\* buffer after the call.
PushDescriptorSet(cb, bindings) ==
  LET binding_count == Len(bindings)
  IN [input_PIM_buffer |-> bindings[1],
      result_PIM_buffer |-> bindings[binding_count],
      buffer_addr_vec |-> Clear(cb.buffer_addr_vec) \o
                            [i \in 1..binding_count |->
                               get_PiM_addr(bindings[i])],
      buffer_shape_vec |-> Clear(cb.buffer_shape_vec) \o
                             [i \in 1..binding_count |->
                                get_PiM_dim(bindings[i])]]

\* Pushes whose bindings are drawn from the given lists.
PushOver(lists) ==
  \E c \in DOMAIN cbs, bindings \in lists :
    /\ ~crashed
    /\ cbs' = [cbs EXCEPT ![c] = PushDescriptorSet(cbs[c], bindings)]
    /\ bound' = [bound EXCEPT ![c] = bindings]
    /\ pushed' = [pushed EXCEPT ![c] =
                    [handles |-> [i \in 1..Len(bindings) |->
                                    buffers[bindings[i]].PIM_addr],
                     shapes |-> [i \in 1..Len(bindings) |->
                                   buffers[bindings[i]].PIM_dim]]]
    /\ last' = [op |-> "push_descriptor_set", cb |-> c,
                bindings |-> bindings, status |-> "OK"]
    /\ trail' = Shift
    /\ UNCHANGED <<buffers, sdk, given, issued, crashed>>
    /\ UNCHANGED hostVars

\* Pushes of every list of live buffers up to MaxBindings.
push_descriptor_set == PushOver(BindingLists)

\* Pushes of one buffer, or of an input and another buffer as output.
PairLists ==
  {<<b>> : b \in Live}
    \cup {l \in {<<a, b>> : a, b \in Live} : l[1] # l[2]}

push_descriptor_set_pair == PushOver(PairLists)

\* The indices of bindings[] push_descriptor_set reads: 0 and
\* binding_count - 1 for the two buffer pointers, then 0 .. binding_count - 1
\* in each loop.
BindingsRead(binding_count) ==
  {0, binding_count - 1} \cup (0..(binding_count - 1))

\* What a read outside the bindings array can yield as a buffer pointer:
\* the pointer of a live buffer left there by an earlier call, or a
\* pointer no buffer lies at.
StrayPointers == Live \cup {NULL}

\* iree_hal_vulkan_direct_command_buffer_push_descriptor_set with
\* binding_count = 0: bindings[0] and bindings[binding_count - 1] are read
\* although the array has no element.  With bindings = NULL the read ends
\* the process; otherwise the two pointers are whatever lies around the
\* array.  The loops do not run and the vectors are left empty.
push_descriptor_set_empty ==
  \E c \in DOMAIN cbs, bindings_null \in BOOLEAN,
     input \in StrayPointers, result \in StrayPointers :
    LET call == [op |-> "push_descriptor_set", cb |-> c, bindings |-> <<>>,
                 bindings_null |-> bindings_null,
                 read |-> BindingsRead(0)]
    IN /\ ~crashed
       /\ IF bindings_null
            THEN /\ input = NULL /\ result = NULL
                 /\ crashed' = TRUE
                 /\ last' = call @@ [status |-> "SIGSEGV"]
                 /\ UNCHANGED <<cbs, bound, pushed>>
            ELSE /\ cbs' = [cbs EXCEPT ![c] =
                             [input_PIM_buffer |-> input,
                              result_PIM_buffer |-> result,
                              buffer_addr_vec |-> Clear(@.buffer_addr_vec),
                              buffer_shape_vec |-> Clear(@.buffer_shape_vec)]]
                 /\ bound' = [bound EXCEPT ![c] = <<>>]
                 /\ pushed' = [pushed EXCEPT ![c] =
                                 [handles |-> <<>>, shapes |-> <<>>]]
                 /\ last' = call @@ [status |-> "OK"]
                 /\ UNCHANGED crashed
       /\ trail' = Shift
       /\ UNCHANGED <<buffers, sdk, given, issued>>
       /\ UNCHANGED hostVars

\* What `last` keeps of the arguments of a dispatch.
DispatchCall(c, executable, entry_point, workgroup) ==
  [op |-> "dispatch", cb |-> c, executable |-> executable,
   entry_point |-> entry_point, workgroup_x |-> workgroup[1],
   workgroup_y |-> workgroup[2], workgroup_z |-> workgroup[3],
   code_length |-> Len(executable)]

\* iree_hal_vulkan_direct_command_buffer_dispatch, code_length = 0:
\* success, nothing else.
SkipDispatch(call) ==
  /\ last' = call @@ [status |-> "OK", sdk_dispatch |-> <<>>]
  /\ UNCHANGED <<buffers, sdk, crashed>>

\* A dispatch that reads the handles and shapes its bound buffers have now.
DispatchArguments_live(c) ==
  [addr_vec |-> [i \in 1..Len(bound[c]) |-> get_PiM_addr(bound[c][i])],
   dim_inf |-> [i \in 1..Len(bound[c]) |-> get_PiM_dim(bound[c][i])]]

\* A dispatch that submits the vectors of the command buffer whose
\* push_descriptor_set came last, as if the vectors were shared.
DispatchArguments_latest(c) ==
  LET d == IF last.op = "push_descriptor_set" THEN last.cb ELSE c
  IN [addr_vec |-> cbs[d].buffer_addr_vec,
      dim_inf |-> cbs[d].buffer_shape_vec]

\* The vectors dispatch hands to PIM_dispatch_code.
DispatchArguments(c) ==
  [addr_vec |-> cbs[c].buffer_addr_vec,
   dim_inf |-> cbs[c].buffer_shape_vec]

\* iree_hal_vulkan_direct_command_buffer_dispatch, code_length # 0: the
\* code word and the captured vectors go to the SDK, the returned handle
\* and shape are written to result_PIM_buffer.  The SDK chooses
\* output_shape; writing through a NULL result_PIM_buffer ends the process,
\* writing through a result_PIM_buffer that has been freed ends it or lands
\* in the freed struct.
SubmitDispatch(c, call, PiM_code, output_shape) ==
  LET return_addr == FreshHandle(sdk)
      result == cbs[c].result_PIM_buffer
      args == DispatchArguments(c)
  IN \E fault \in IF result = NULL THEN {TRUE}
                  ELSE IF result \in destroyed THEN {TRUE, FALSE}
                  ELSE {FALSE} :
     /\ Len(sdk.mem) < MaxHandles
     /\ sdk' = PIM_dispatch_code(sdk, args.addr_vec, OpType(PiM_code),
                                 args.dim_inf, output_shape)
     /\ buffers' =
          IF fault THEN buffers
          ELSE push_PiM_dim(push_PiM_addr(buffers, result, return_addr),
                            result, output_shape)
     /\ crashed' = fault
     /\ last' = call @@
                 [status |-> IF fault THEN "SIGSEGV" ELSE "OK",
                  sdk_dispatch |->
                    <<[addr_vec |-> args.addr_vec,
                       op_type |-> OpType(PiM_code),
                       dim_inf |-> args.dim_inf,
                       ret |-> return_addr,
                       output_shape |-> output_shape]>>]

\* A code word chosen by the entry point.
FirstWord_indexed(executable, entry_point) ==
  executable[IF entry_point < Len(executable) THEN entry_point + 1 ELSE 1]

\* *(uint64_t*)iree_hal_pim_executable_cmd_get(executable): the first
\* 64-bit word of the code.
FirstWord(executable, entry_point) == executable[1]

\* A dispatch without the code_length check: an empty executable is
\* submitted with whatever word lies at its code pointer.
Dispatch_unchecked(c, executable, entry_point, workgroup, output_shape) ==
  SubmitDispatch(c, DispatchCall(c, executable, entry_point, workgroup),
                 IF executable = <<>> THEN Word(0, 0)
                 ELSE FirstWord(executable, entry_point),
                 output_shape)

Dispatch(c, executable, entry_point, workgroup, output_shape) ==
  LET code_length == Len(executable)
      call == DispatchCall(c, executable, entry_point, workgroup)
  IN IF code_length = 0
       THEN SkipDispatch(call)
       ELSE SubmitDispatch(c, call, FirstWord(executable, entry_point),
                           output_shape)

\* Dispatches whose executable, entry point and workgroup count are drawn
\* from the given sets.
DispatchOver(executables_, entry_points, workgroups) ==
  \E c \in DOMAIN cbs, executable \in executables_,
     entry_point \in entry_points, workgroup \in workgroups,
     output_shape \in OutShapes :
    /\ ~crashed
    /\ Dispatch(c, executable, entry_point, workgroup, output_shape)
    /\ issued' = IF executable # <<>>
                   THEN Append(issued, OpType(executable[1]))
                   ELSE issued
    /\ trail' = IF executable # <<>> THEN Shift ELSE <<>>
    /\ UNCHANGED <<cbs, bound, pushed, given>>
    /\ UNCHANGED hostVars

\* Dispatches of one entry point over one workgroup.
dispatch == DispatchOver(Executables, {0}, {<<1, 1, 1>>})

\* Dispatches of one code word.
dispatch_word == DispatchOver({<<Word(0, 1)>>}, {0}, {<<1, 1, 1>>})

\* Dispatches of any code word, entry point and workgroup count.
dispatch_grid == DispatchOver(GridExecutables, EntryPoints, WorkgroupCounts)

\* A call that does no work and returns success.
NoOp(name) ==
  /\ ~crashed
  /\ last' = [op |-> name, status |-> "OK"]
  /\ trail' = <<>>
  /\ UNCHANGED <<buffers, cbs, sdk, bound, pushed, given, issued, crashed>>
  /\ UNCHANGED hostVars

\* iree_hal_vulkan_direct_command_buffer_begin / _end
begin == NoOp("begin")
end == NoOp("end")

\* iree_hal_vulkan_device_queue_execute / _queue_flush / _wait_semaphores
queue_execute == NoOp("queue_execute")
queue_flush == NoOp("queue_flush")
wait_semaphores == NoOp("wait_semaphores")

----------------------------------------------------------------------------
(* The recording machine: buffers are allocated, bound and dispatched. *)
Next ==
  \/ allocate_operand
  \/ alloca_output
  \/ push_descriptor_set
  \/ dispatch
  \/ begin
  \/ end
  \/ queue_execute
  \/ queue_flush
  \/ wait_semaphores

Spec == Init /\ [][Next]_vars

(* Two command buffers of one device share one buffer that queue_alloca *)
(* has allocated, and are recorded in any interleaving.                 *)
InitTwo ==
  InitWith(TwoCbIds,
           iree_hal_PIM_allocator_allocate_internal(
             <<>>, 8, 1, PlaceholderDim(3), 3, FALSE),
           PIM_SDK_alloc_buffer([mem |-> <<>>, opLog |-> <<>>], 2, Zeros(8)),
           <<(<<>>)>>)

NextTwo ==
  \/ push_descriptor_set
  \/ dispatch

SpecTwo == InitTwo /\ [][NextTwo]_vars

(* Two command buffers of one device and two buffers that queue_alloca *)
(* has allocated; each command buffer can have its own output buffer.  *)
InitPair ==
  InitWith(TwoCbIds,
           iree_hal_PIM_allocator_allocate_internal(
             iree_hal_PIM_allocator_allocate_internal(
               <<>>, 8, 1, PlaceholderDim(3), 3, FALSE),
             8, 2, PlaceholderDim(3), 3, FALSE),
           PIM_SDK_alloc_buffer(
             PIM_SDK_alloc_buffer([mem |-> <<>>, opLog |-> <<>>], 2, Zeros(8)),
             2, Zeros(8)),
           <<(<<>>), (<<>>)>>)

NextPair ==
  \/ push_descriptor_set_pair
  \/ dispatch_word

SpecPair == InitPair /\ [][NextPair]_vars

(* One command buffer bound to one buffer, dispatched with any code word, *)
(* entry point and workgroup count.                                       *)
InitGrid ==
  InitWith(CbIds,
           iree_hal_PIM_allocator_allocate_internal(
             <<>>, 8, 1, PlaceholderDim(3), 3, FALSE),
           PIM_SDK_alloc_buffer([mem |-> <<>>, opLog |-> <<>>], 2, Zeros(8)),
           <<(<<>>)>>)

NextGrid ==
  \/ push_descriptor_set
  \/ dispatch_grid

SpecGrid == InitGrid /\ [][NextGrid]_vars

(* One command buffer bound to one buffer that is dispatched to and *)
(* mapped for reading.                                             *)
NextRead ==
  \/ push_descriptor_set
  \/ dispatch
  \/ map_range

SpecRead == InitGrid /\ [][NextRead]_vars

(* One command buffer and one buffer; descriptor sets are pushed with  *)
(* and without bindings.                                               *)
NextEmpty ==
  \/ push_descriptor_set
  \/ push_descriptor_set_empty
  \/ dispatch_word

SpecEmpty == InitGrid /\ [][NextEmpty]_vars

(* The mapping machine: one buffer is dispatched to and mapped, and the *)
(* shadows are kept.                                                   *)
NextHeap ==
  \/ push_descriptor_set
  \/ dispatch
  \/ map_range_held
  \/ unmap_range
  \/ invalidate_range
  \/ flush_range

SpecHeap == InitGrid /\ [][NextHeap]_vars

(* The allocator machine: every allocation request, and mapping. *)
NextAlloc ==
  \/ allocate_buffer
  \/ queue_alloca
  \/ map_range

SpecAlloc == Init /\ [][NextAlloc]_vars

----------------------------------------------------------------------------
(* Buffer lifetime (PIM_buffer.cc, PIM_allocator.cc, PIM_device.cc). *)

\* A destroy that hands the buffer's tensor back to the SDK.
iree_hal_vulkan_vma_buffer_destroy_releasing(s, PIM_addr) ==
  [s EXCEPT !.mem[PIM_addr] = <<>>]

\* iree_hal_vulkan_vma_buffer_destroy: the SDK after the buffer struct is
\* freed.
iree_hal_vulkan_vma_buffer_destroy(s, PIM_addr) == s

\* A call that ends the life of buffer b.
Destroy(name, b) ==
  /\ ~crashed
  /\ destroyed' = destroyed \cup {b}
  /\ sdk' = iree_hal_vulkan_vma_buffer_destroy(sdk, get_PiM_addr(b))
  /\ last' = [op |-> name, buffer |-> b]
  /\ trail' = <<>>
  /\ UNCHANGED <<buffers, cbs, bound, pushed, given, issued, crashed>>
  /\ UNCHANGED <<drivers, devices, executables, semaphores, signalled,
                 command_buffers, heap>>

\* iree_hal_buffer_destroy on the last release of the buffer.
buffer_destroy == \E b \in Live : Destroy("buffer_destroy", b)

\* iree_hal_vulkan_vma_allocator_deallocate_buffer
deallocate_buffer == \E b \in Live : Destroy("deallocate_buffer", b)

\* iree_hal_vulkan_device_queue_dealloca: returns success, the buffer and
\* its handle stay.
queue_dealloca ==
  \E b \in Live :
    /\ ~crashed
    /\ last' = [op |-> "queue_dealloca", buffer |-> b, status |-> "OK"]
    /\ trail' = <<>>
    /\ UNCHANGED <<buffers, cbs, sdk, bound, pushed, given, issued, crashed>>
    /\ UNCHANGED hostVars

(* The lifetime machine: buffers are allocated, bound, dispatched to and *)
(* given up.                                                             *)
NextLife ==
  \/ alloca_output
  \/ push_descriptor_set
  \/ dispatch
  \/ buffer_destroy
  \/ deallocate_buffer
  \/ queue_dealloca

SpecLife == Init /\ [][NextLife]_vars

----------------------------------------------------------------------------
(* Commands without effect (direct_command_buffer.cc). *)

\* A command that casts the command buffer and returns.
Command(record) ==
  /\ ~crashed
  /\ last' = record
  /\ trail' = <<>>
  /\ UNCHANGED <<cbs, sdk, bound, pushed, given, issued, crashed>>
  /\ UNCHANGED hostVars

\* A transfer that marks its target buffer as rewritten.
Transfer_written(bufs, target_buffer) ==
  [bufs EXCEPT ![target_buffer].PIM_dim = <<0, 0, 0>>]

\* fill_buffer, update_buffer, copy_buffer: the buffers after the call.
Transfer(bufs, target_buffer) == bufs

fill_buffer ==
  \E c \in DOMAIN cbs, target_buffer \in 1..Len(buffers) :
    /\ Command([op |-> "fill_buffer", cb |-> c,
                target_buffer |-> target_buffer, status |-> "OK"])
    /\ buffers' = Transfer(buffers, target_buffer)

update_buffer ==
  \E c \in DOMAIN cbs, target_buffer \in 1..Len(buffers) :
    /\ Command([op |-> "update_buffer", cb |-> c,
                target_buffer |-> target_buffer, status |-> "OK"])
    /\ buffers' = Transfer(buffers, target_buffer)

copy_buffer ==
  \E c \in DOMAIN cbs, source_buffer \in 1..Len(buffers),
     target_buffer \in 1..Len(buffers) :
    /\ Command([op |-> "copy_buffer", cb |-> c,
                source_buffer |-> source_buffer,
                target_buffer |-> target_buffer, status |-> "OK"])
    /\ buffers' = Transfer(buffers, target_buffer)

dispatch_indirect ==
  \E c \in DOMAIN cbs, executable \in Executables,
     workgroups_buffer \in 1..Len(buffers) :
    /\ Command([op |-> "dispatch_indirect", cb |-> c,
                executable |-> executable,
                workgroups_buffer |-> workgroups_buffer, status |-> "OK"])
    /\ UNCHANGED buffers

\* A command with no buffer argument that returns a status.
PlainCommand(name) ==
  \E c \in DOMAIN cbs :
    /\ Command([op |-> name, cb |-> c, status |-> "OK"])
    /\ UNCHANGED buffers

\* A command that returns nothing.
VoidCommand(name) ==
  \E c \in DOMAIN cbs :
    /\ Command([op |-> name, cb |-> c])
    /\ UNCHANGED buffers

execution_barrier == PlainCommand("execution_barrier")
signal_event == PlainCommand("signal_event")
reset_event == PlainCommand("reset_event")
wait_events == PlainCommand("wait_events")
push_constants == PlainCommand("push_constants")
execute_commands == PlainCommand("execute_commands")
begin_debug_group == VoidCommand("begin_debug_group")
end_debug_group == VoidCommand("end_debug_group")

(* The command machine: buffers are allocated and bound, and the commands *)
(* without effect are recorded.                                           *)
NextCmd ==
  \/ allocate_operand
  \/ alloca_output
  \/ push_descriptor_set
  \/ fill_buffer
  \/ update_buffer
  \/ copy_buffer
  \/ dispatch_indirect
  \/ execution_barrier
  \/ signal_event
  \/ reset_event
  \/ wait_events
  \/ push_constants
  \/ execute_commands
  \/ begin_debug_group
  \/ end_debug_group

SpecCmd == Init /\ [][NextCmd]_vars

----------------------------------------------------------------------------
(* Device queries (PIM_device.cc). *)

Categories == {"hal.executable.format", "hal.device.id", ""}
Keys == {"pim-isr-fb", "pim-isr", "PIM-ISR-FB", "vulkan-spirv-fb", ""}

\* iree_string_view_equal: same length and same bytes.
iree_string_view_equal(lhs, rhs) == lhs = rhs

\* A format test that accepts every key.
FormatValue_any(key) == 1

\* The value query_i64 stores for a key of category hal.executable.format.
FormatValue(key) ==
  IF iree_string_view_equal(key, "pim-isr-fb") THEN 1 ELSE 0

\* iree_hal_vulkan_device_query_i64: (status, *out_value).
iree_hal_vulkan_device_query_i64(category, key) ==
  IF iree_string_view_equal(category, "hal.executable.format")
    THEN [status |-> "OK", out_value |-> FormatValue(key)]
    ELSE [status |-> "NOT_FOUND", out_value |-> 0]

\* A host-side call: it touches nothing of the recording side.
HostCall(record) ==
  /\ ~crashed
  /\ last' = record
  /\ trail' = <<>>
  /\ UNCHANGED recordVars

query_i64 ==
  \E category \in Categories, key \in Keys :
    /\ HostCall([op |-> "query_i64", category |-> category, key |-> key]
                 @@ iree_hal_vulkan_device_query_i64(category, key))
    /\ UNCHANGED <<crashed, drivers, devices, executables>>
    /\ UNCHANGED auxVars

----------------------------------------------------------------------------
(* Executable container (native_executable.cc). *)

\* Entry-point name vectors of a container; "" is a name of length 0.
EntryPointVecs ==
  {<<>>, <<"main">>, <<"">>, <<"main", "aux">>, <<"main", "">>}

\* executable_params->executable_data: whether the data pointer is set, the
\* byte length, whether the bytes pass the generated FlatBuffer verifier,
\* and the two vectors of the PIMExecutableDef table.
Container(data, data_length, flatcc_ok, entry_points, code) ==
  [data |-> data, data_length |-> data_length, flatcc_ok |-> flatcc_ok,
   entry_points |-> entry_points, code |-> code]

Containers ==
  {Container(TRUE, 64, TRUE, e, c) : e \in EntryPointVecs, c \in Executables}
    \cup {Container(FALSE, 0, FALSE, <<>>, <<>>),
          Container(TRUE, 8, FALSE, <<>>, <<>>),
          Container(TRUE, 64, FALSE, <<"main">>, <<Word(0, 1)>>),
          Container(TRUE, 64, FALSE, <<"main", "">>, <<>>)}

PipelineLayoutCounts == {0, 1, 2}

\* A verifier without the entry-point count rule.
EntryPointCountStatus_any(entry_point_count, expected_entry_point_count) ==
  "OK"

\* The rule of verify: the container's entry-point count is the expected one.
EntryPointCountStatus(entry_point_count, expected_entry_point_count) ==
  IF entry_point_count # expected_entry_point_count
    THEN "FAILED_PRECONDITION" ELSE "OK"

\* A verifier without the entry-point name rule.
EntryPointNamesStatus_any(entry_points_vec) == "OK"

\* The rule of verify: no entry point has a name of length 0.
EntryPointNamesStatus(entry_points_vec) ==
  IF \E i \in 1..Len(entry_points_vec) : entry_points_vec[i] = ""
    THEN "INVALID_ARGUMENT" ELSE "OK"

\* A verifier that rejects an empty code vector.
CodeStatus_strict(code) ==
  IF Len(code) = 0 THEN "INVALID_ARGUMENT" ELSE "OK"

\* The rule of verify on the code vector: its rejection is commented out.
CodeStatus(code) == "OK"

\* A verifier that looks at the names before it compares the counts.
iree_hal_pim_executable_flatbuffer_verify_names_first(flatbuffer_data, expected_entry_point_count) ==
  IF ~flatbuffer_data.data \/ flatbuffer_data.data_length < 16
    THEN "INVALID_ARGUMENT"
  ELSE IF ~flatbuffer_data.flatcc_ok
    THEN "INVALID_ARGUMENT"
  ELSE IF EntryPointNamesStatus(flatbuffer_data.entry_points) # "OK"
    THEN EntryPointNamesStatus(flatbuffer_data.entry_points)
  ELSE IF EntryPointCountStatus(Len(flatbuffer_data.entry_points),
                                expected_entry_point_count) # "OK"
    THEN EntryPointCountStatus(Len(flatbuffer_data.entry_points),
                               expected_entry_point_count)
  ELSE CodeStatus(flatbuffer_data.code)

\* iree_hal_pim_executable_flatbuffer_verify: the status.
iree_hal_pim_executable_flatbuffer_verify(flatbuffer_data, expected_entry_point_count) ==
  IF ~flatbuffer_data.data \/ flatbuffer_data.data_length < 16
    THEN "INVALID_ARGUMENT"
  ELSE IF ~flatbuffer_data.flatcc_ok
    THEN "INVALID_ARGUMENT"
  ELSE IF EntryPointCountStatus(Len(flatbuffer_data.entry_points),
                                expected_entry_point_count) # "OK"
    THEN EntryPointCountStatus(Len(flatbuffer_data.entry_points),
                               expected_entry_point_count)
  ELSE IF EntryPointNamesStatus(flatbuffer_data.entry_points) # "OK"
    THEN EntryPointNamesStatus(flatbuffer_data.entry_points)
  ELSE CodeStatus(flatbuffer_data.code)

\* The executable struct iree_hal_vulkan_native_executable_create fills:
\* the code vector, its length, the entry-point count, and an entry_points
\* array that is zero-filled (the container's names are not copied).
NativeExecutable(code_vec, entry_point_count) ==
  [code_vec |-> code_vec, cmd_stack_len |-> Len(code_vec),
   entry_point_count |-> entry_point_count,
   entry_points |-> [i \in 1..entry_point_count |-> [name |-> ""]]]

iree_hal_pim_executable_cmd_get(e) == executables[e].code_vec
iree_hal_pim_executable_cmd_len(e) == executables[e].cmd_stack_len

\* iree_hal_vulkan_native_executable_create(host_allocator,
\* executable_params, out_executable); oom: the host allocation of the
\* executable struct fails.
executable_create ==
  \E executable_data \in Containers,
     pipeline_layout_count \in PipelineLayoutCounts, oom \in BOOLEAN :
    LET verified == iree_hal_pim_executable_flatbuffer_verify(
                      executable_data, pipeline_layout_count)
        status == IF verified # "OK" THEN verified
                  ELSE IF oom THEN "RESOURCE_EXHAUSTED" ELSE "OK"
        call == [op |-> "executable_create",
                 executable_data |-> executable_data,
                 pipeline_layout_count |-> pipeline_layout_count,
                 host_oom |-> oom, status |-> status]
    IN /\ Len(executables) < MaxExecutables
       /\ executables' =
            IF status = "OK"
              THEN Append(executables,
                          NativeExecutable(executable_data.code,
                                           Len(executable_data.entry_points)))
              ELSE executables
       /\ HostCall(call @@ [out_executable |->
                              IF status = "OK" THEN Len(executables) + 1
                              ELSE NULL])
       /\ UNCHANGED <<crashed, drivers, devices>>
       /\ UNCHANGED auxVars

----------------------------------------------------------------------------
(* Driver factory and driver (driver_module.cc, PIM_driver.cc). *)

DriverNames == {"PIM", "pim", "gpu", ""}
DeviceIds == {0, 1}
DevicePaths == {"", "0"}
IREE_HAL_DEVICE_ID_DEFAULT == 0

\* iree_hal_vulkan_device_options_initialize
DeviceOptions == [flags |-> 0, large_heap_block_size |-> 64 * 1024 * 1024]

\* iree_hal_vulkan_driver_factory_enumerate: the driver infos it returns.
DriverInfos == <<[driver_name |-> "PIM", full_name |-> "{PIM_SDK} driver"]>>

factory_enumerate ==
  /\ HostCall([op |-> "factory_enumerate", status |-> "OK",
               out_driver_info_count |-> Len(DriverInfos),
               out_driver_infos |-> DriverInfos])
  /\ UNCHANGED <<crashed, drivers, devices, executables>>
  /\ UNCHANGED auxVars

\* A factory that provides a driver under every name.
DriverProvided_any(driver_name) == TRUE

\* The name test of iree_hal_vulkan_driver_factory_try_create.
DriverProvided(driver_name) == iree_string_view_equal(driver_name, "PIM")

\* iree_hal_vulkan_driver_factory_try_create(driver_name, host_allocator,
\* out_driver).  iree_hal_vulkan_driver_create_internal uses the driver
\* struct without looking at the status of its allocation: when that fails
\* (oom) the struct pointer is NULL and the write through it ends the
\* process.
factory_try_create ==
  \E driver_name \in DriverNames, oom \in BOOLEAN :
    LET call == [op |-> "factory_try_create", driver_name |-> driver_name]
    IN /\ Len(drivers) < MaxDrivers
       /\ IF ~DriverProvided(driver_name)
            THEN /\ HostCall(call @@ [status |-> "UNAVAILABLE",
                                      out_driver |-> NULL])
                 /\ UNCHANGED <<crashed, drivers>>
            ELSE IF oom
              THEN /\ HostCall(call @@ [status |-> "SIGSEGV",
                                        out_driver |-> NULL])
                   /\ crashed' = TRUE
                   /\ UNCHANGED drivers
              ELSE /\ HostCall(call @@ [status |-> "OK",
                                        out_driver |-> Len(drivers) + 1])
                   /\ drivers' = Append(drivers,
                                        [identifier |-> driver_name,
                                         device_options |-> DeviceOptions])
                   /\ UNCHANGED crashed
       /\ UNCHANGED <<devices, executables>>
       /\ UNCHANGED auxVars

\* iree_hal_vulkan_device_create: the device struct; oom: a host allocation
\* (of the device or of its allocator) fails.
CreateDevice(call, driver, identifier, options, oom) ==
  /\ Len(devices) < MaxDevices
  /\ devices' = IF oom THEN devices
                ELSE Append(devices, [identifier |-> identifier,
                                      driver |-> driver,
                                      flags |-> options.flags])
  /\ HostCall(call @@ [host_oom |-> oom, options |-> options,
                       status |-> IF oom THEN "RESOURCE_EXHAUSTED" ELSE "OK",
                       out_device |-> IF oom THEN NULL
                                      ELSE Len(devices) + 1])
  /\ UNCHANGED <<crashed, drivers, executables>>
  /\ UNCHANGED auxVars

\* iree_hal_vulkan_driver_create_device_by_id
CreateDeviceById(call, driver, device_id, oom) ==
  LET device_name == "PIM"
  IN CreateDevice(call, driver, device_name,
                  drivers[driver].device_options, oom)

create_device_by_id ==
  \E driver \in 1..Len(drivers), device_id \in DeviceIds, oom \in BOOLEAN :
    CreateDeviceById([op |-> "create_device_by_id", driver |-> driver,
                      device_id |-> device_id], driver, device_id, oom)

\* iree_hal_vulkan_driver_create_device_by_path
create_device_by_path ==
  \E driver \in 1..Len(drivers), driver_name \in DriverNames,
     device_path \in DevicePaths, oom \in BOOLEAN :
    LET call == [op |-> "create_device_by_path", driver |-> driver,
                 driver_name |-> driver_name, device_path |-> device_path]
    IN IF device_path = ""
         THEN CreateDeviceById(call, driver, IREE_HAL_DEVICE_ID_DEFAULT, oom)
         ELSE /\ Len(devices) < MaxDevices
              /\ HostCall(call @@ [host_oom |-> oom,
                                   status |-> "UNIMPLEMENTED",
                                   out_device |-> NULL])
              /\ UNCHANGED <<crashed, drivers, devices, executables>>
              /\ UNCHANGED auxVars

(* The host machine: the factory, drivers, devices, queries, executables. *)
NextHost ==
  \/ factory_enumerate
  \/ factory_try_create
  \/ create_device_by_id
  \/ create_device_by_path
  \/ query_i64
  \/ executable_create

SpecHost == Init /\ [][NextHost]_vars

----------------------------------------------------------------------------
(* Compatibility queries (PIM_allocator.cc). *)

\* Bit masks are sets of bits.
IREE_HAL_MEMORY_TYPE_OPTIMAL == {"OPTIMAL"}
IREE_HAL_MEMORY_TYPE_DEVICE_VISIBLE == {"DEVICE_VISIBLE"}
IREE_HAL_BUFFER_USAGE_TRANSFER == {"TRANSFER_SOURCE", "TRANSFER_TARGET"}
IREE_HAL_BUFFER_USAGE_DISPATCH_STORAGE == {"DISPATCH_STORAGE_READ", "DISPATCH_STORAGE_WRITE"}
MemoryTypes == SUBSET {"OPTIMAL", "DEVICE_VISIBLE", "HOST_VISIBLE"}
BufferUsages == SUBSET (IREE_HAL_BUFFER_USAGE_TRANSFER \cup IREE_HAL_BUFFER_USAGE_DISPATCH_STORAGE)
QuerySizes == 0..12

iree_any_bit_set(value, mask) == value \cap mask # {}
iree_all_bits_set(value, mask) == mask \subseteq value
iree_host_align(value, alignment) == ((value + alignment - 1) \div alignment) * alignment

\* A size adjustment without the guard for the zero size.
AdjustedSize_unguarded(allocation_size) == iree_host_align(allocation_size, 4)

\* *allocation_size after the call.
AdjustedSize(allocation_size) ==
  iree_host_align(IF allocation_size = 0 THEN 4 ELSE allocation_size, 4)

\* A bitmask that grants the queue to memory the device cannot see.
Compatibility_blind(type, usage) ==
  {"ALLOCATABLE"}
    \cup (IF iree_any_bit_set(usage, IREE_HAL_BUFFER_USAGE_TRANSFER)
            THEN {"QUEUE_TRANSFER"} ELSE {})
    \cup (IF iree_any_bit_set(usage, IREE_HAL_BUFFER_USAGE_DISPATCH_STORAGE)
            THEN {"QUEUE_DISPATCH"} ELSE {})

\* The bitmask returned.
Compatibility(type, usage) ==
  {"ALLOCATABLE"}
    \cup (IF iree_any_bit_set(usage, IREE_HAL_BUFFER_USAGE_TRANSFER)
            THEN {"QUEUE_TRANSFER"} ELSE {})
    \cup (IF /\ iree_all_bits_set(type, IREE_HAL_MEMORY_TYPE_DEVICE_VISIBLE)
             /\ iree_any_bit_set(usage, IREE_HAL_BUFFER_USAGE_DISPATCH_STORAGE)
            THEN {"QUEUE_DISPATCH"} ELSE {})

\* iree_hal_vulkan_vma_allocator_query_buffer_compatibility(allocator,
\* params, allocation_size): params and allocation_size are read and
\* written in place.
query_buffer_compatibility ==
  \E type \in MemoryTypes, usage \in BufferUsages, allocation_size \in QuerySizes :
    /\ HostCall([op |-> "query_buffer_compatibility",
                 type |-> type, usage |-> usage,
                 allocation_size |-> allocation_size,
                 compatibility |-> Compatibility(type, usage),
                 out_type |-> type \ IREE_HAL_MEMORY_TYPE_OPTIMAL,
                 out_usage |-> usage,
                 out_allocation_size |-> AdjustedSize(allocation_size)])
    /\ UNCHANGED <<crashed, hostVars>>

(* The query machine: callers ask about any request, in any order. *)
NextQuery == query_buffer_compatibility

SpecQuery == Init /\ [][NextQuery]_vars

----------------------------------------------------------------------------
(* Semaphores (native_semaphore.cc, PIM_device.cc). *)

SemaValues == {0, 1, 3}          \* payload values callers pass
\* iree_timeout_t: poll, a relative time, wait forever (stands for the
\* largest duration).
IREE_DURATION_INFINITE == 2147483647
Timeouts == {0, 10, IREE_DURATION_INFINITE}
WaitModes == {"ALL", "ANY"}

\* A call on a semaphore: it touches nothing but, at most, the semaphores.
SemaCall(record) ==
  /\ ~crashed
  /\ last' = record
  /\ trail' = <<>>
  /\ UNCHANGED recordVars
  /\ UNCHANGED <<crashed, drivers, devices, executables, command_buffers,
                 destroyed, heap>>

\* iree_hal_vulkan_native_semaphore_create(host_allocator, initial_value,
\* out_semaphore): the struct holds a failure status only; initial_value is
\* not stored.
semaphore_create ==
  \E initial_value \in SemaValues, oom \in BOOLEAN :
    /\ Len(semaphores) < MaxSemaphores
    /\ semaphores' = IF oom THEN semaphores
                     ELSE Append(semaphores, [failure_status |-> 0])
    /\ signalled' = IF oom THEN signalled
                    ELSE Append(signalled, initial_value)
    /\ SemaCall([op |-> "semaphore_create", initial_value |-> initial_value,
                 status |-> IF oom THEN "RESOURCE_EXHAUSTED" ELSE "OK",
                 out_semaphore |-> IF oom THEN NULL
                                   ELSE Len(semaphores) + 1])

\* iree_hal_vulkan_native_semaphore_query(semaphore, out_value): returns OK
\* and leaves *out_value as the caller had it.
semaphore_query ==
  \E s \in 1..Len(semaphores), out_value \in SemaValues :
    /\ SemaCall([op |-> "semaphore_query", semaphore |-> s,
                 status |-> "OK", out_value |-> out_value])
    /\ UNCHANGED <<semaphores, signalled>>

\* iree_hal_vulkan_native_semaphore_signal(semaphore, new_value)
semaphore_signal ==
  \E s \in 1..Len(semaphores), new_value \in SemaValues :
    /\ SemaCall([op |-> "semaphore_signal", semaphore |-> s,
                 new_value |-> new_value, status |-> "OK"])
    /\ signalled' = [signalled EXCEPT ![s] = new_value]
    /\ UNCHANGED semaphores

\* A wait that polls: with no time to wait it reports a positive value as
\* not reached.
iree_hal_vulkan_native_semaphore_wait_polling(value, timeout) ==
  IF timeout = 0 /\ value > 0 THEN "DEADLINE_EXCEEDED" ELSE "OK"

\* iree_hal_vulkan_native_semaphore_wait(semaphore, value, timeout): the
\* status.
iree_hal_vulkan_native_semaphore_wait(value, timeout) == "OK"

semaphore_wait ==
  \E s \in 1..Len(semaphores), value \in SemaValues, timeout \in Timeouts :
    /\ SemaCall([op |-> "semaphore_wait", semaphore |-> s, value |-> value,
                 timeout |-> timeout,
                 status |-> iree_hal_vulkan_native_semaphore_wait(
                              value, timeout)])
    /\ UNCHANGED <<semaphores, signalled>>

\* iree_hal_vulkan_device_wait_semaphores(wait_mode, semaphore_list,
\* timeout): the status.
iree_hal_vulkan_device_wait_semaphores(semaphore_list, values, timeout) ==
  "OK"

\* The device's wait on a list of semaphores with one awaited payload value
\* each.
device_wait_semaphores ==
  \E wait_mode \in WaitModes, semaphore_list \in SUBSET (1..Len(semaphores)),
     value \in SemaValues, timeout \in Timeouts :
    LET values == [s \in semaphore_list |-> value]
    IN /\ SemaCall([op |-> "device_wait_semaphores",
                    wait_mode |-> wait_mode,
                    semaphore_list |-> semaphore_list,
                    payload_values |-> values, timeout |-> timeout,
                    status |-> iree_hal_vulkan_device_wait_semaphores(
                                 semaphore_list, values, timeout)])
       /\ UNCHANGED <<semaphores, signalled>>

CommandCategories == {"TRANSFER", "DISPATCH"}
BindingCapacities == {0, 1, 2}

\* A command buffer allocation that accepts a binding table.
iree_hal_vulkan_direct_command_buffer_allocate_indirect(command_categories, binding_capacity, oom) ==
  IF oom
    THEN [status |-> "RESOURCE_EXHAUSTED", created |-> <<>>]
    ELSE [status |-> "OK",
          created |-> <<[command_categories |-> command_categories,
                         binding_capacity |-> binding_capacity]>>]

\* The status and the command buffer made (none: <<>>).
iree_hal_vulkan_direct_command_buffer_allocate(command_categories, binding_capacity, oom) ==
  IF binding_capacity > 0
    THEN [status |-> "UNIMPLEMENTED", created |-> <<>>]
    ELSE IF oom
      THEN [status |-> "RESOURCE_EXHAUSTED", created |-> <<>>]
      ELSE [status |-> "OK",
            created |-> <<[command_categories |-> command_categories,
                           binding_capacity |-> binding_capacity]>>]

\* iree_hal_vulkan_device_create_command_buffer
create_command_buffer ==
  \E command_categories \in SUBSET CommandCategories,
     binding_capacity \in BindingCapacities, oom \in BOOLEAN :
    LET r == iree_hal_vulkan_direct_command_buffer_allocate(
               command_categories \cup {"DISPATCH"}, binding_capacity, oom)
    IN /\ Len(command_buffers) < MaxCommandBuffers
       /\ HostCall([op |-> "create_command_buffer",
                    command_categories |-> command_categories,
                    binding_capacity |-> binding_capacity,
                    host_oom |-> oom, status |-> r.status,
                    out_command_buffer |->
                      IF r.created = <<>> THEN NULL
                      ELSE Len(command_buffers) + 1])
       /\ command_buffers' = command_buffers \o r.created
       /\ UNCHANGED <<crashed, drivers, devices, executables, semaphores,
                      signalled, destroyed, heap>>

(* The device's objects: semaphores and command buffers. *)
NextSema ==
  \/ semaphore_create
  \/ semaphore_query
  \/ semaphore_signal
  \/ semaphore_wait
  \/ device_wait_semaphores
  \/ create_command_buffer

SpecSema == Init /\ [][NextSema]_vars

----------------------------------------------------------------------------
(* Properties. *)

IsDispatch(l) == l.op = "dispatch"
IsSubmit(l) == l.op = "dispatch" /\ l.code_length > 0
IsPush(l) == l.op = "push_descriptor_set"
IsAlloc(l) == l.op \in {"allocate_buffer", "queue_alloca"}
HandlesOf(bindings) == [i \in 1..Len(bindings) |-> buffers[bindings[i]].PIM_addr]
ShapesOf(bindings) == [i \in 1..Len(bindings) |-> buffers[bindings[i]].PIM_dim]

\* C1: after push_descriptor_set(bindings) and a dispatch with a non-empty
\* executable, the buffer bound as the last binding has the handle the SDK
\* dispatch call returned and the out-shape that call reported.
C1_DispatchMutatesOutput ==
  (IsSubmit(last) /\ bound[last.cb] # <<>>) =>
     LET out == Last(bound[last.cb])
         call == last.sdk_dispatch[1]
     IN /\ get_PiM_addr(out) = call.ret
        /\ get_PiM_dim(out) = call.output_shape

C1_Witness ==
  /\ IsSubmit(last) /\ last.status = "OK"
  /\ Len(bound[last.cb]) = 2
  /\ bound[last.cb][1] # bound[last.cb][2]
  /\ given[bound[last.cb][2]] = <<>>
  /\ get_PiM_dim(bound[last.cb][2]) = <<3>>

\* C2: a dispatch with an executable of code length 0 returns success,
\* makes no SDK call and leaves the handle and shape of every buffer as
\* they were.
C2_EmptyDispatchNoEffect ==
  [][(IsDispatch(last') /\ last'.executable = <<>>) =>
       /\ last'.status = "OK"
       /\ last'.sdk_dispatch = <<>>
       /\ sdk' = sdk
       /\ buffers' = buffers]_vars

C2_Witness ==
  /\ IsDispatch(last) /\ last.code_length = 0
  /\ bound[last.cb] # <<>>
  /\ given[Last(bound[last.cb])] = <<>>
  /\ get_PiM_dim(Last(bound[last.cb])) = <<0, 0, 0>>
  /\ get_PiM_addr(Last(bound[last.cb])) = Last(bound[last.cb])

\* C3: when push_descriptor_set is called twice in succession on one
\* command buffer and a non-empty dispatch follows, the handle and shape
\* vectors the SDK receives are exactly those of the second call's
\* bindings, and no buffer other than the second call's last binding
\* changes; the first call's output buffer keeps its handle and shape.
C3_RepushResetsBindings ==
  [][(/\ IsPush(last) /\ trail # <<>> /\ IsPush(Last(trail))
      /\ Last(trail).cb = last.cb
      /\ IsSubmit(last') /\ last'.cb = last.cb) =>
       LET call == last'.sdk_dispatch[1]
       IN /\ call.addr_vec = HandlesOf(last.bindings)
          /\ call.dim_inf = ShapesOf(last.bindings)
          /\ \A b \in 1..Len(buffers) :
               b # Last(last.bindings) => buffers'[b] = buffers[b]]_vars

C3_Witness ==
  /\ IsSubmit(last) /\ last.status = "OK"
  /\ Len(trail) = 2 /\ IsPush(trail[1]) /\ IsPush(trail[2])
  /\ trail[1].cb = last.cb /\ trail[2].cb = last.cb
  /\ trail[1].out # trail[2].out
  /\ Len(last.sdk_dispatch[1].addr_vec) = 1
  /\ get_PiM_dim(trail[1].out) = <<0, 0, 0>>
  /\ get_PiM_dim(trail[2].out) = last.sdk_dispatch[1].output_shape

\* C4: dispatches reach the SDK in record order, and a dispatch has updated
\* its output buffer before the next push_descriptor_set captures: in
\* push(B1), dispatch(E1), push(B2), wherever B2 binds the output buffer of
\* B1 the captured handle and shape are the result handle and out-shape of
\* the first dispatch.
C4_RecordOrder ==
  [][/\ sdk'.opLog = issued'
     /\ (/\ IsSubmit(last) /\ last.status = "OK"
         /\ trail # <<>> /\ IsPush(Last(trail)) /\ Last(trail).cb = last.cb
         /\ IsPush(last') /\ last'.cb = last.cb) =>
           \A i \in 1..Len(last'.bindings) :
             last'.bindings[i] = Last(trail).out =>
               /\ cbs'[last.cb].buffer_addr_vec[i] = last.sdk_dispatch[1].ret
               /\ cbs'[last.cb].buffer_shape_vec[i] =
                    last.sdk_dispatch[1].output_shape]_vars

C4_Witness ==
  /\ IsPush(last)
  /\ Len(trail) = 2 /\ IsPush(trail[1]) /\ trail[1].cb = last.cb
  /\ IsDispatch(trail[2]) /\ trail[2].cb = last.cb
  /\ Len(last.bindings) = 2
  /\ last.bindings[1] = trail[1].out
  /\ last.bindings[2] # trail[1].out
  /\ cbs[last.cb].buffer_shape_vec[1] \in OutShapes
  /\ cbs[last.cb].buffer_addr_vec[1] = Len(sdk.mem)
  /\ Len(issued) = 1

\* C5: every dispatch with a non-empty executable performs exactly one SDK
\* dispatch call, within the call; begin, end, queue_execute, queue_flush
\* and wait_semaphores perform none.  So the number of SDK dispatch calls
\* always equals the number of non-empty dispatch calls.
C5_SynchronousDispatch ==
  [][/\ Len(sdk'.opLog) = Len(issued')
     /\ IsSubmit(last') =>
          /\ Len(last'.sdk_dispatch) = 1
          /\ Len(sdk'.opLog) = Len(sdk.opLog) + 1
     /\ last'.op \in {"begin", "end", "queue_execute", "queue_flush",
                      "wait_semaphores"} => sdk' = sdk]_vars

C5_Witness ==
  /\ last.op = "queue_execute"
  /\ Len(issued) = 2
  /\ Len(sdk.opLog) = 2

\* C6: a captured binding table is submitted at most once: a second
\* non-empty dispatch on the same command buffer with no push_descriptor_set
\* in between does not submit the same handle and shape vectors again.
C6_AtMostOnce ==
  [][(/\ IsSubmit(last) /\ last.status = "OK"
      /\ IsSubmit(last') /\ last'.cb = last.cb) =>
       \/ last'.sdk_dispatch = <<>>
       \/ last'.sdk_dispatch[1].addr_vec # last.sdk_dispatch[1].addr_vec
       \/ last'.sdk_dispatch[1].dim_inf # last.sdk_dispatch[1].dim_inf]_vars

\* C7: for every allocate_buffer request the created buffer's allocation
\* size and byte length are multiples of 4, and a request of size 0 yields
\* a buffer of size 4 whose SDK alloc call had element_count = 1.
C7_AllocationAligned ==
  (IsAlloc(last) /\ last.out_buffer # NULL) =>
     LET b == buffers[last.out_buffer]
     IN /\ b.allocation_size % 4 = 0
        /\ b.byte_length % 4 = 0
        /\ last.allocation_size = 0 =>
             /\ b.allocation_size = 4
             /\ last.sdk_alloc.size = 1

\* C8: allocate_buffer with non-empty initial data and (tensor_shape,
\* tensor_rank = r) yields a buffer whose shape is tensor_shape[0..r) in
\* order and whose rank is r; the SDK alloc call receives
\* element_count = size/4 and the caller's initial data.
C8_ShapeRoundTrip ==
  (IsAlloc(last) /\ last.initial_data # <<>> /\ last.out_buffer # NULL) =>
     LET b == last.out_buffer
     IN /\ Len(get_PiM_dim(b)) = last.tensor_rank
        /\ \A i \in 1..last.tensor_rank :
             get_PiM_dim(b)[i] = last.tensor_shape[i]
        /\ buffers[b].PIM_rank = last.tensor_rank
        /\ get_PiM_addr(b) = last.sdk_alloc.ret
        /\ last.sdk_alloc.size * 4 <= last.allocation_size
        /\ last.allocation_size < (last.sdk_alloc.size + 1) * 4
        /\ last.sdk_alloc.data = last.initial_data

C8_Witness ==
  /\ IsAlloc(last) /\ last.initial_data # <<>> /\ last.out_buffer = 2
  /\ last.tensor_rank = 2
  /\ get_PiM_dim(2) = <<2, 1>>
  /\ last.sdk_alloc.size = 2

\* C9: allocate_buffer with empty initial data, and so every queue_alloca,
\* yields a buffer whose shape is [0,0,0] whatever tensor_shape and
\* tensor_rank were requested, and whose handle comes from an SDK alloc
\* call made with size/4 zero-valued floats.
C9_PlaceholderShape ==
  /\ last.op = "queue_alloca" => last.initial_data = <<>>
  /\ (IsAlloc(last) /\ last.initial_data = <<>> /\ last.out_buffer # NULL) =>
       LET b == last.out_buffer
       IN /\ get_PiM_dim(b) = <<0, 0, 0>>
          /\ get_PiM_addr(b) = last.sdk_alloc.ret
          /\ last.sdk_alloc.size * 4 <= last.allocation_size
          /\ last.allocation_size < (last.sdk_alloc.size + 1) * 4
          /\ Len(last.sdk_alloc.data) = 4 * last.sdk_alloc.size
          /\ \A i \in 1..Len(last.sdk_alloc.data) :
               last.sdk_alloc.data[i] = 0

C9_Witness ==
  /\ last.op = "queue_alloca" /\ last.out_buffer # NULL
  /\ last.tensor_rank = 2 /\ last.allocation_size = 8
  /\ get_PiM_dim(last.out_buffer) = <<0, 0, 0>>
  /\ last.sdk_alloc.data = <<0, 0, 0, 0, 0, 0, 0, 0>>

\* C10: allocating a buffer with initial data D and mapping the same range
\* for read yields a host span bytewise equal to D.
C10_MapRoundTrip ==
  (/\ last.op = "map_range" /\ last.status = "OK"
   /\ given[last.buffer] # <<>>
   /\ last.local_byte_offset = 0
   /\ last.local_byte_length = Len(given[last.buffer])) =>
     last.contents = given[last.buffer]

\* C15: when the host allocation of the buffer struct fails during wrap,
\* allocate_buffer and queue_alloca return a non-OK status; an OK status
\* always comes with a non-NULL output buffer.
C15_WrapFailurePropagates ==
  IsAlloc(last) =>
    /\ last.host_oom => last.status # "OK"
    /\ last.status = "OK" => last.out_buffer # NULL

\* C16: when map_range cannot allocate its host shadow it returns
\* resource-exhausted, makes no SDK read call and does not write the
\* mapping's contents.
C16_MapShadowFailure ==
  (last.op = "map_range" /\ last.host_oom) =>
    /\ last.status = "RESOURCE_EXHAUSTED"
    /\ last.sdk_read = NULL
    /\ last.contents = <<>>

C16_Witness ==
  /\ last.op = "map_range" /\ last.host_oom
  /\ last.status = "RESOURCE_EXHAUSTED"
  /\ given[last.buffer] # <<>>
  /\ last.local_byte_length = 8

\* C17: a command buffer is single-use with ENDED as a terminal state; in
\* particular a push_descriptor_set or dispatch that directly follows end
\* on the command buffer does not change the captured bindings, does not
\* call the SDK and does not mutate any buffer.
C17_EndedIsTerminal ==
  [][(last.op = "end" /\ (IsPush(last') \/ IsDispatch(last'))) =>
       /\ cbs' = cbs
       /\ sdk' = sdk
       /\ buffers' = buffers]_vars

\* C18: a dispatch with non-zero code length that calls the SDK runs on a
\* command buffer holding an output buffer captured by an earlier
\* push_descriptor_set on it; with no prior push a dispatch is performed
\* only with code length zero.
C18_DispatchRequiresPush ==
  (IsDispatch(last) /\ last.sdk_dispatch # <<>>) =>
    /\ bound[last.cb] # <<>>
    /\ cbs[last.cb].result_PIM_buffer # NULL
    /\ last.status = "OK"

\* C11: query_i64 with category "hal.executable.format" returns OK with
\* value 1 iff the key is exactly "pim-isr-fb" and OK with value 0 for every
\* other key; with any other category it fails with not-found and the
\* output value is 0.
C11_ExecutableFormat ==
  last.op = "query_i64" =>
    IF last.category = "hal.executable.format"
      THEN /\ last.status = "OK"
           /\ last.out_value \in {0, 1}
           /\ last.out_value = 1 <=> last.key = "pim-isr-fb"
      ELSE /\ last.status = "NOT_FOUND"
           /\ last.out_value = 0

C11_Witness ==
  /\ last.op = "query_i64"
  /\ last.category = "hal.executable.format"
  /\ last.key = "PIM-ISR-FB"
  /\ last.out_value = 0

IsCreate(l) == l.op = "executable_create"

\* The container passes the structural verification of the FlatBuffer.
Verified(c) == c.data /\ c.data_length >= 16 /\ c.flatcc_ok

NamesNonEmpty(c) == \A i \in 1..Len(c.entry_points) : c.entry_points[i] # ""

\* C12: creating an executable from a verified container whose entry-point
\* name count differs from the caller's pipeline_layout_count fails with
\* failed-precondition, creates no executable and leaves the output
\* executable pointer NULL.
C12_EntryPointCountMismatch ==
  [][(/\ IsCreate(last') /\ Verified(last'.executable_data)
      /\ Len(last'.executable_data.entry_points)
           # last'.pipeline_layout_count) =>
       /\ last'.status = "FAILED_PRECONDITION"
       /\ last'.out_executable = NULL
       /\ executables' = executables]_vars

C12_Witness ==
  /\ IsCreate(last) /\ Verified(last.executable_data)
  /\ Len(last.executable_data.entry_points) = 2
  /\ last.pipeline_layout_count = 1
  /\ ~NamesNonEmpty(last.executable_data)
  /\ last.status = "FAILED_PRECONDITION"

\* C13: creating an executable whose container has the declared number of
\* entry points but at least one empty entry-point name fails with
\* invalid-argument; every successfully created executable comes from a
\* container with only non-empty entry-point names and a name count equal
\* to the declared pipeline_layout_count.
C13_EntryPointNames ==
  IsCreate(last) =>
    /\ (/\ Verified(last.executable_data)
        /\ Len(last.executable_data.entry_points)
             = last.pipeline_layout_count
        /\ ~NamesNonEmpty(last.executable_data)) =>
          /\ last.status = "INVALID_ARGUMENT"
          /\ last.out_executable = NULL
    /\ last.status = "OK" =>
          /\ NamesNonEmpty(last.executable_data)
          /\ Len(last.executable_data.entry_points)
               = last.pipeline_layout_count
          /\ executables[last.out_executable].entry_point_count
               = last.pipeline_layout_count

C13_Witness ==
  /\ IsCreate(last) /\ Verified(last.executable_data)
  /\ last.executable_data.entry_points = <<"main", "">>
  /\ last.pipeline_layout_count = 2
  /\ last.status = "INVALID_ARGUMENT"

\* C14: a container that passes the other verification rules but has an
\* empty code vector is accepted: creation succeeds and the executable
\* reports code_length() = 0; code_length() of every created executable
\* equals the number of words in the container's code vector.
C14_EmptyCodeAccepted ==
  IsCreate(last) =>
    /\ (/\ Verified(last.executable_data)
        /\ Len(last.executable_data.entry_points)
             = last.pipeline_layout_count
        /\ NamesNonEmpty(last.executable_data)
        /\ last.executable_data.code = <<>>
        /\ ~last.host_oom) =>
          /\ last.status = "OK"
          /\ last.out_executable # NULL
          /\ iree_hal_pim_executable_cmd_len(last.out_executable) = 0
    /\ last.status = "OK" =>
          /\ iree_hal_pim_executable_cmd_len(last.out_executable)
               = Len(last.executable_data.code)
          /\ iree_hal_pim_executable_cmd_get(last.out_executable)
               = last.executable_data.code

C14_Witness ==
  /\ IsCreate(last) /\ last.status = "OK"
  /\ last.executable_data.code = <<>>
  /\ last.executable_data.entry_points = <<"main", "aux">>
  /\ iree_hal_pim_executable_cmd_len(last.out_executable) = 0

\* C19: the driver factory creates a driver only for the name "PIM":
\* try_create with any other name fails with unavailable and creates no
\* driver, and the factory enumerates exactly one driver, named "PIM" with
\* full name "{PIM_SDK} driver".
C19_DriverNaming ==
  [][/\ (last'.op = "factory_try_create" /\ last'.driver_name # "PIM") =>
          /\ last'.status = "UNAVAILABLE"
          /\ last'.out_driver = NULL
          /\ drivers' = drivers
     /\ drivers' # drivers =>
          /\ last'.op = "factory_try_create"
          /\ last'.driver_name = "PIM"
     /\ last'.op = "factory_enumerate" =>
          /\ last'.out_driver_info_count = 1
          /\ Len(last'.out_driver_infos) = 1
          /\ last'.out_driver_infos[1].driver_name = "PIM"
          /\ last'.out_driver_infos[1].full_name = "{PIM_SDK} driver"]_vars

C19_Witness ==
  /\ last.op = "factory_try_create"
  /\ last.driver_name = "gpu"
  /\ last.status = "UNAVAILABLE"
  /\ drivers = <<>>

\* C20: create_device_by_id and create_device_by_path both construct a
\* device with the fixed identifier "PIM" and the driver's default options,
\* for every device id and every device path (host allocation permitting).
C20_CreateDevice ==
  (/\ last.op \in {"create_device_by_id", "create_device_by_path"}
   /\ ~last.host_oom) =>
     /\ last.status = "OK"
     /\ last.out_device # NULL
     /\ devices[last.out_device].identifier = "PIM"
     /\ last.options = drivers[last.driver].device_options
     /\ devices[last.out_device].flags
          = drivers[last.driver].device_options.flags

\* C21: a semaphore wait, and the device's wait_semaphores, returns success
\* at once for every awaited value and every timeout, whether or not the
\* semaphore was ever signalled to that value; signal and query return
\* success and change no state of the back-end.
C21_SemaphoresAreNoOps ==
  [][/\ last'.op \in {"semaphore_wait", "device_wait_semaphores",
                      "semaphore_signal", "semaphore_query"} =>
          /\ last'.status = "OK"
          /\ semaphores' = semaphores
          /\ UNCHANGED <<buffers, cbs, sdk, crashed>>
     /\ last'.op \in {"semaphore_wait", "device_wait_semaphores"} =>
          signalled' = signalled]_vars

C21_Witness ==
  /\ last.op = "semaphore_wait" /\ last.status = "OK"
  /\ last.timeout = 0
  /\ last.value = 3
  /\ signalled[last.semaphore] = 1
  /\ Len(semaphores) = 2

NoEffectCommands ==
  {"dispatch_indirect", "copy_buffer", "fill_buffer", "update_buffer",
   "execution_barrier", "signal_event", "reset_event", "wait_events",
   "begin_debug_group", "end_debug_group", "push_constants",
   "execute_commands"}

\* C22: dispatch_indirect, copy_buffer, fill_buffer, update_buffer,
\* execution_barrier, signal/reset/wait events, debug groups, push_constants
\* and execute_commands return success (the debug groups return nothing)
\* and leave unchanged the command buffer's captured vectors and output
\* buffer and the handle and shape of every buffer, the target of fill,
\* update and copy included; none of them calls the SDK.
C22_CommandsWithoutEffect ==
  [][last'.op \in NoEffectCommands =>
       /\ last'.op \notin {"begin_debug_group", "end_debug_group"} =>
            last'.status = "OK"
       /\ cbs' = cbs
       /\ buffers' = buffers
       /\ sdk' = sdk]_vars

C22_Witness ==
  /\ last.op = "copy_buffer" /\ last.status = "OK"
  /\ last.source_buffer # last.target_buffer
  /\ given[last.source_buffer] # <<>>
  /\ given[last.target_buffer] = <<>>
  /\ bound[last.cb] = <<last.source_buffer, last.target_buffer>>
  /\ get_PiM_dim(last.target_buffer) = <<0, 0, 0>>
  /\ get_PiM_dim(last.source_buffer) = <<2, 1>>

\* C23: creating a command buffer with binding_capacity > 0 fails with
\* unimplemented, creates no command buffer and leaves the output pointer
\* NULL; with binding_capacity = 0 and a successful host allocation it
\* returns a command buffer whose categories include dispatch.
C23_CreateCommandBuffer ==
  [][last'.op = "create_command_buffer" =>
       /\ last'.binding_capacity > 0 =>
            /\ last'.status = "UNIMPLEMENTED"
            /\ command_buffers' = command_buffers
            /\ last'.out_command_buffer = NULL
       /\ (last'.binding_capacity = 0 /\ ~last'.host_oom) =>
            /\ last'.status = "OK"
            /\ last'.out_command_buffer = Len(command_buffers) + 1
            /\ Len(command_buffers') = Len(command_buffers) + 1
            /\ "DISPATCH" \in
                 command_buffers'[last'.out_command_buffer].command_categories]_vars

C23_Witness ==
  /\ last.op = "create_command_buffer" /\ last.status = "OK"
  /\ last.binding_capacity = 0
  /\ last.command_categories = {"TRANSFER"}
  /\ last.out_command_buffer = 1
  /\ command_buffers[1].command_categories = {"TRANSFER", "DISPATCH"}

IsQuery(l) == l.op = "query_buffer_compatibility"

\* C24: query_buffer_compatibility replaces the requested size s by 4 when
\* s = 0 and otherwise by the smallest multiple of 4 that is >= s; the
\* result is never smaller than s, and a query with an already adjusted
\* size leaves the size unchanged.
C24_SizeAdjustment ==
  [][IsQuery(last') =>
       LET s == last'.allocation_size
           r == last'.out_allocation_size
       IN /\ s = 0 => r = 4
          /\ s # 0 => /\ r % 4 = 0 /\ r >= s
                      /\ \A m \in s..r : m % 4 = 0 => m = r
          /\ r >= s
          /\ (IsQuery(last) /\ s = last.out_allocation_size) => r = s]_vars

C24_Witness ==
  /\ IsQuery(last)
  /\ last.allocation_size = 5 /\ last.out_allocation_size = 8

\* C25: the bitmask returned by query_buffer_compatibility always contains
\* allocatable; it contains queue-transfer exactly when the usage includes
\* transfer; it contains queue-dispatch exactly when the request is
\* device-visible and its usage includes dispatch-storage; the optimal bit
\* is cleared on the returned parameters and every other type bit is kept.
C25_CompatibilityBits ==
  IsQuery(last) =>
    /\ "ALLOCATABLE" \in last.compatibility
    /\ "QUEUE_TRANSFER" \in last.compatibility <=>
         last.usage \cap {"TRANSFER_SOURCE", "TRANSFER_TARGET"} # {}
    /\ "QUEUE_DISPATCH" \in last.compatibility <=>
         /\ "DEVICE_VISIBLE" \in last.type
         /\ last.usage \cap {"DISPATCH_STORAGE_READ", "DISPATCH_STORAGE_WRITE"} # {}
    /\ "OPTIMAL" \notin last.out_type
    /\ \A bit \in {"DEVICE_VISIBLE", "HOST_VISIBLE"} :
         bit \in last.out_type <=> bit \in last.type

C25_Witness ==
  /\ IsQuery(last)
  /\ last.type = {"OPTIMAL", "HOST_VISIBLE"}
  /\ last.usage = {"TRANSFER_TARGET", "DISPATCH_STORAGE_READ"}
  /\ last.compatibility = {"ALLOCATABLE", "QUEUE_TRANSFER"}
  /\ last.out_type = {"HOST_VISIBLE"}

C27_PushCaptures ==
  [][IsPush(last') =>
       LET n == Len(last'.bindings)
           cb == cbs'[last'.cb]
       IN /\ n >= 1
          /\ Len(cb.buffer_addr_vec) = n
          /\ Len(cb.buffer_shape_vec) = n
          /\ \A i \in 1..n :
               /\ cb.buffer_addr_vec[i] = buffers[last'.bindings[i]].PIM_addr
               /\ cb.buffer_shape_vec[i] = buffers[last'.bindings[i]].PIM_dim
          /\ cb.result_PIM_buffer = last'.bindings[n]]_vars

C27_Witness ==
  /\ IsPush(last) /\ last.status = "OK"
  /\ last.bindings = <<2, 1>>
  /\ cbs[last.cb].buffer_addr_vec = <<3, 1>>
  /\ cbs[last.cb].buffer_shape_vec[1] \in OutShapes
  /\ cbs[last.cb].buffer_shape_vec[2] = <<2, 1>>
  /\ cbs[last.cb].result_PIM_buffer = 1

\* C28: bindings are captured by value: when the handle or the shape of a
\* bound buffer changes between push_descriptor_set and the following
\* dispatch on the same command buffer, for instance by a dispatch of
\* another command buffer that has the buffer as its output, the dispatch
\* still passes the handle and shape the buffer had at the push.
C28_CapturedByValue ==
  [][IsSubmit(last') =>
       /\ last'.sdk_dispatch[1].addr_vec = pushed[last'.cb].handles
       /\ last'.sdk_dispatch[1].dim_inf = pushed[last'.cb].shapes]_vars

C28_Witness ==
  /\ IsSubmit(last) /\ last.status = "OK"
  /\ Len(trail) = 2
  /\ IsPush(trail[1]) /\ trail[1].cb = last.cb
  /\ IsDispatch(trail[2]) /\ trail[2].cb # last.cb
  /\ Last(bound[trail[2].cb]) = bound[last.cb][1]
  /\ last.sdk_dispatch[1].addr_vec = <<1>>
  /\ last.sdk_dispatch[1].dim_inf = <<(<<0, 0, 0>>)>>
  /\ last.sdk_dispatch[1].ret = 3

\* The arguments of the SDK call a dispatch made.
SdkArguments(l) ==
  [addr_vec |-> l.sdk_dispatch[1].addr_vec,
   op_type |-> l.sdk_dispatch[1].op_type,
   dim_inf |-> l.sdk_dispatch[1].dim_inf]

\* C29: the arguments of the SDK dispatch call depend only on the captured
\* handle vector, the captured shape vector and the first code word: two
\* dispatches of one command buffer with the same first code word, with no
\* push between them, make the same SDK call whatever their trailing code
\* words, entry_point ordinals and workgroup counts x, y, z.
C29_DispatchArguments ==
  [][(/\ IsSubmit(last) /\ IsSubmit(last')
      /\ last'.cb = last.cb
      /\ last'.executable[1] = last.executable[1]) =>
        SdkArguments(last') = SdkArguments(last)]_vars

C29_Witness ==
  /\ IsSubmit(last) /\ last.status = "OK"
  /\ last.executable = <<Word(0, 2), Word(0, 9)>>
  /\ last.entry_point = 1
  /\ last.workgroup_x = 2 /\ last.workgroup_y = 3 /\ last.workgroup_z = 4
  /\ trail # <<>> /\ IsDispatch(Last(trail)) /\ Last(trail).cb = last.cb
  /\ sdk.opLog = <<2, 2>>
  /\ SdkArguments(last).addr_vec = <<1>>

\* The int n has the value of the unsigned 64-bit word.
ValueOf(word, n) == word.hi = 0 /\ word.lo >= 0 /\ n = word.lo

\* C30: the operator code the SDK receives equals the first 64-bit word of
\* the executable's code, for every value of the word from 0 to 2^64 - 1:
\* nothing is truncated and no sign changes.
C30_OpCodeIsFirstWord ==
  IsSubmit(last) =>
    ValueOf(last.executable[1], last.sdk_dispatch[1].op_type)

\* C31: every buffer allocated with initial data has a shape vector whose
\* length equals its stored rank, also after it has been the output of a
\* dispatch; a buffer allocated with empty initial data has shape [0,0,0]
\* until a dispatch writes it.
C31_ShapeLengthIsRank ==
  [][\A b \in 1..Len(buffers') :
       /\ given'[b] # <<>> =>
            Len(buffers'[b].PIM_dim) = buffers'[b].PIM_rank
       /\ given'[b] = <<>> =>
            IF b > Len(buffers)
              THEN buffers'[b].PIM_dim = <<0, 0, 0>>
              ELSE buffers'[b].PIM_dim # buffers[b].PIM_dim =>
                     IsSubmit(last')]_vars

IsMap(l) == l.op = "map_range" /\ l.status = "OK"

\* The first bytes of the shadow are those of the tensor.
ReadsTensor(contents, tensor) ==
  \A i \in 1..Len(contents) : i <= Len(tensor) => contents[i] = tensor[i]

\* C32: map_range reads the tensor of the buffer's current handle: after a
\* non-empty dispatch wrote an output buffer, a map of that buffer returns
\* the contents of the tensor of the result handle the SDK returned, not
\* the zero-filled placeholder tensor of its queue_alloca.
C32_MapReadsCurrentHandle ==
  [][IsMap(last') =>
       /\ last'.sdk_read = buffers[last'.buffer].PIM_addr
       /\ ReadsTensor(last'.contents, sdk.mem[buffers[last'.buffer].PIM_addr])
       /\ (/\ IsSubmit(last) /\ last.status = "OK"
           /\ last'.buffer = cbs[last.cb].result_PIM_buffer) =>
             /\ last'.sdk_read = last.sdk_dispatch[1].ret
             /\ ReadsTensor(last'.contents,
                            sdk.mem[last.sdk_dispatch[1].ret])]_vars

C32_Witness ==
  /\ IsMap(last) /\ last.local_byte_length = 8
  /\ given[last.buffer] = <<>>
  /\ last.sdk_read = 2
  /\ sdk.mem[1] = Zeros(8)
  /\ last.contents = [i \in 1..8 |-> 7]

\* C33: every successful map_range returns a freshly allocated host shadow:
\* two mappings, of one buffer or of two, never share storage, and a later
\* dispatch, map, flush, invalidate or unmap does not change the contents
\* of an earlier mapping.
C33_FreshShadow ==
  [][/\ IsMap(last') =>
          /\ Len(heap') = Len(heap) + 1
          /\ Last(heap') = last'.contents
     /\ \A m \in 1..Len(heap) : heap'[m] = heap[m]]_vars

\* C34: a dispatch with non-empty code changes nothing except the handle
\* and the shape of the captured output buffer: the other buffers, the byte
\* length, rank and other fields of the output buffer, and the command
\* buffer's captured vectors and output buffer reference stay as they were.
C34_DispatchFrame ==
  [][(IsSubmit(last') /\ last'.status = "OK") =>
       LET out == cbs[last'.cb].result_PIM_buffer
       IN /\ Len(buffers') = Len(buffers)
          /\ \A b \in 1..Len(buffers) : b # out => buffers'[b] = buffers[b]
          /\ buffers'[out] =
               [buffers[out] EXCEPT !.PIM_addr = buffers'[out].PIM_addr,
                                    !.PIM_dim = buffers'[out].PIM_dim]
          /\ cbs' = cbs]_vars

C34_Witness ==
  /\ IsSubmit(last) /\ last.status = "OK"
  /\ Len(buffers) = 2 /\ Len(bound[last.cb]) = 2
  /\ bound[last.cb][1] # bound[last.cb][2]
  /\ cbs[last.cb].result_PIM_buffer = bound[last.cb][2]
  /\ get_PiM_addr(bound[last.cb][1]) = cbs[last.cb].buffer_addr_vec[1]
  /\ get_PiM_addr(bound[last.cb][2]) # cbs[last.cb].buffer_addr_vec[2]
  /\ buffers[bound[last.cb][2]].PIM_rank # Len(get_PiM_dim(bound[last.cb][2]))

\* C35: executable verification applies its rules in order and the first
\* failing rule decides: a container that is absent, shorter than 16 bytes
\* or fails root verification gives invalid-argument whatever it holds;
\* otherwise an entry-point count other than the declared one gives
\* failed-precondition even when a name is empty too; otherwise an empty
\* name gives invalid-argument.  On every failure no executable is created
\* and the output pointer is NULL.
C35_VerifyOrder ==
  [][IsCreate(last') =>
       LET c == last'.executable_data
           mismatch == Len(c.entry_points) # last'.pipeline_layout_count
       IN /\ ~Verified(c) => last'.status = "INVALID_ARGUMENT"
          /\ (Verified(c) /\ mismatch) =>
               last'.status = "FAILED_PRECONDITION"
          /\ (Verified(c) /\ ~mismatch /\ ~NamesNonEmpty(c)) =>
               last'.status = "INVALID_ARGUMENT"
          /\ last'.status # "OK" =>
               /\ last'.out_executable = NULL
               /\ executables' = executables]_vars

C35_Witness ==
  /\ IsCreate(last)
  /\ last.executable_data = Container(TRUE, 64, TRUE, <<"">>, <<>>)
  /\ last.pipeline_layout_count = 2
  /\ last.status = "FAILED_PRECONDITION"
  /\ last.out_executable = NULL
  /\ executables = <<>>

\* C36: the SDK read made by map_range never writes past the end of the
\* host shadow: the number of bytes it copies is at most the requested
\* mapping length, also when that length is smaller than the buffer's byte
\* length, when the offset is not zero, and when a dispatch has replaced
\* the buffer's tensor by a result of another size.
C36_ReadWithinShadow ==
  IsMap(last) =>
    /\ Len(sdk.mem[last.sdk_read]) <= last.local_byte_length
    /\ ~last.overrun

\* C37: command buffers are independent recorders: push_descriptor_set and
\* dispatch on one command buffer never change the captured vectors or the
\* output buffer of another, and with interleaved recordings each dispatch
\* submits exactly the vectors captured by the most recent push on its own
\* command buffer and writes only the output buffer of that push.
C37_IndependentRecorders ==
  [][/\ IsPush(last') =>
          \A d \in DOMAIN cbs : d # last'.cb => cbs'[d] = cbs[d]
     /\ IsDispatch(last') => cbs' = cbs
     /\ (IsSubmit(last') /\ last'.status = "OK") =>
          LET c == last'.cb
              out == Last(bound[c])
          IN /\ last'.sdk_dispatch[1].addr_vec = pushed[c].handles
             /\ last'.sdk_dispatch[1].dim_inf = pushed[c].shapes
             /\ buffers'[out].PIM_addr = last'.sdk_dispatch[1].ret
             /\ \A b \in 1..Len(buffers) :
                  b # out => buffers'[b] = buffers[b]]_vars

C37_Witness ==
  /\ IsSubmit(last) /\ last.status = "OK"
  /\ Len(trail) = 2
  /\ IsPush(trail[1]) /\ trail[1].cb = last.cb /\ trail[1].out = 1
  /\ IsPush(trail[2]) /\ trail[2].cb # last.cb /\ trail[2].out = 2
  /\ last.sdk_dispatch[1].addr_vec = <<1>>
  /\ cbs[trail[2].cb].buffer_addr_vec = <<2>>
  /\ cbs[trail[2].cb].result_PIM_buffer = 2
  /\ get_PiM_addr(1) = 3 /\ get_PiM_addr(2) = 2

\* C38: push_descriptor_set reads only bindings[0 .. binding_count - 1]:
\* called with binding_count = 0 it reads no element of bindings, leaves
\* the captured vectors empty and captures no output buffer that a later
\* dispatch could write into.
C38_EmptyPushReadsNothing ==
  [][(IsPush(last') /\ last'.bindings = <<>>) =>
       /\ last'.status = "OK"
       /\ last'.read = {}
       /\ cbs'[last'.cb].buffer_addr_vec = <<>>
       /\ cbs'[last'.cb].buffer_shape_vec = <<>>
       /\ cbs'[last'.cb].result_PIM_buffer \notin 1..Len(buffers)]_vars

====
